---- MODULE Spec2Model ----
(***************************************************************************)
(* The AIGFS raster processor (src/backend/processor.py): the scheduling   *)
(* loop run_processor_service, the worker pool, and process_file with its  *)
(* inner load_var, over the files of the data and output directories.      *)
(*                                                                         *)
(* What an external library call returns (the decoder's result, whether a  *)
(* label selection is empty, whether a write succeeds, the free memory)    *)
(* is an input of the model: each call draws its outcome from the set of   *)
(* outcomes the call can have.                                             *)
(***************************************************************************)
EXTENDS Integers, Sequences, FiniteSets, TLC

\* Number of abnormal outcomes (low memory, variable not found, decode
\* error, empty crop, render or write failure) drawn in one behaviour.
MaxFaults == 1

\* processor.py:17, MAX_WORKERS = min(4, cpu_count()) on a two-core host.
MAX_WORKERS == 2

\* processor.py:18, MIN_FREE_RAM_GB = 2.0; memory is counted in GiB.
MIN_FREE_RAM_GB == 2

\* psutil.virtual_memory().available as a task starts: below the floor, or
\* exactly the floor.
AvailGB == {1, 2}

\* processor.py:16, the force-rewrite flag.
REPROCESS == FALSE

Workers == 1 .. MAX_WORKERS

\* os.getpid() in a pool worker, as the text f"{os.getpid()}" gives. The
\* workers of one pool are distinct processes; every cycle forks a new pool,
\* and a new process may be given the id of one that has exited: the w-th
\* worker of every pool is taken to have the same id.
getpid(w) == <<"1", "2", "3", "4">>[w]

\* Source files, named by the lead-time token of aigfs.t12z.sfc.f<fhr>.grib2.
Files == {"f168", "f174"}

\* int(fhr_str) of processor.py:103-104.
fhr_int(f) == CASE f = "f168" -> 168
                [] f = "f174" -> 174

\* processor.py:22-26; dicts iterate in insertion order.
REGIONS == [global |-> [max_fhr |-> 384],
            conus  |-> [max_fhr |-> 168],
            west   |-> [max_fhr |-> 168]]

RegionOrder == <<"global", "conus", "west">>

\* processor.py:43-72, the keys of VAR_CONFIG in insertion order.
VarOrder == <<"t2m", "tp", "prmsl", "wind_speed">>

\* config['key'] of each VAR_CONFIG entry.
ConfigKey(v) == CASE v = "t2m" -> "t2m"
                  [] v = "tp" -> "tp"
                  [] v = "prmsl" -> "prmsl"
                  [] v = "wind_speed" -> "wind_speed"

\* processor.py:162-169, the load_var calls in program order.
LoadOrder == <<"t2m", "tp", "prmsl", "u10", "v10">>

Regions == {RegionOrder[i] : i \in 1 .. Len(RegionOrder)}

VarKeys == {VarOrder[i] : i \in 1 .. Len(VarOrder)}

\* A tile key: source file (date, run, lead time), region, variable.
Keys == Files \X Regions \X VarKeys

VARIABLES
    sources,    \* the .grib2 files present under data/
    tile,       \* static/maps/<key>.png: "absent", "partial" or "full"
    sidecar,    \* static/maps/<key>.json: "absent", "partial" or "full"
    idx,        \* the .idx files present under data/, as dot-separated names
    idxBy,      \* for each index file, the live worker that created it (0: none)
    phase,      \* where run_processor_service is: scan, map, sweep, sleep
    queue,      \* files of this cycle not yet handed to a worker
    result,     \* per file, which return statement of process_file ended it
    wk,         \* per worker, the position inside process_file
    data_cache, \* per file, data_cache of its process_file call of this cycle
    mem,        \* per file, the free memory its task read (-1: not started)
    failed,     \* the (file, variable) pairs whose load_var raised this cycle
    disp,       \* per key, what this cycle's render loop did with it
    log,        \* lines printed by process_file in this cycle
    faults,     \* abnormal outcomes drawn so far
    prev,       \* every task of the previous cycle returned True
    var_key,    \* one field through load_var and one render: its VAR_CONFIG key
    longitude,  \* the field's longitude coordinate
    latitude,   \* the field's latitude coordinate
    interp,     \* data_interp.values, the resampled samples
    stats,      \* <<min_val, max_val>>
    rgba,       \* rgba_data, one <<colour, alpha>> per sample
    png,        \* the image array handed to img.save
    stage,      \* how far that field has come
    dl,         \* the downloader: where it is, and at which forecast hour
    temps,      \* the .tmp files present under data/, as dot-separated names
    partial,    \* the names under data/ whose file is not completely written
    max_retries, \* retry_on_failure: the wrapper's max_retries
    delay,      \* the wrapper's delay, in seconds
    rt_pc,      \* where one call of the wrapper is
    rt_i,       \* the loop variable i
    rt_calls,   \* the outcome of every invocation of the wrapped function
    rt_slept,   \* seconds slept so far
    rt_ret      \* what the wrapper returned

\* The field followed sample by sample.
raster == <<var_key, longitude, latitude, interp, stats, rgba, png, stage>>

\* The state of the service and of its files.
service == <<sources, tile, sidecar, idx, idxBy, phase, queue, result, wk,
             data_cache, mem, failed, disp, log, faults, prev>>

\* The downloader and the files it writes.
net == <<dl, temps, partial>>

\* One call of a function wrapped by retry_on_failure.
retrier == <<max_retries, delay, rt_pc, rt_i, rt_calls, rt_slept, rt_ret>>

vars == <<sources, tile, sidecar, idx, idxBy, phase, queue, result, wk,
          data_cache, mem, failed, disp, log, faults, prev, raster, net,
          retrier>>

\* What process_file changes outside its own worker's position.
disk == <<tile, sidecar, idx, idxBy>>

Idle == [pc |-> "idle", file |-> "none", li |-> 0, pos |-> 0,
         created |-> FALSE]

\* The floor compared in the wrong unit: no reading is ever below it.
LowRamWrongUnit(avail) == avail * 1024 < MIN_FREE_RAM_GB

\* processor.py:94, "mem.available < (MIN_FREE_RAM_GB * 1024**3)".
LowRam(avail) == avail < MIN_FREE_RAM_GB

----------------------------------------------------------------------------
(* Names of files under data/.                                             *)

\* basename of a source file, split on '.'.
SourceName(f) == <<f, "grib2">>

\* One index file per source file, "<file_path>.idx", whatever the variable
\* and the process.
IndexPathShared(f, name, p) == SourceName(f) \o <<"idx">>

\* processor.py:141: f"{file_path}.{internal_name}.{os.getpid()}.idx".
IndexPath(f, name, p) == SourceName(f) \o <<name, p, "idx">>

\* f.endswith('.idx') of processor.py:318.
EndsWithIdx(n) == Len(n) > 1 /\ n[Len(n)] = "idx"

\* f.replace('.idx', '') of processor.py:318: every ".idx" is cut out.
StripIdx(n) == <<n[1]>> \o SelectSeq(Tail(n), LAMBDA t : t # "idx")

\* The names os.walk lists under data/.
Listing == {SourceName(f) : f \in sources} \cup idx \cup temps

\* Every file is taken for a leftover, the source files too.
IsStale(n) == TRUE

\* processor.py:318, the test that decides whether the sweep removes n.
IsOrphan(n) == EndsWithIdx(n) /\ StripIdx(n) \notin Listing

\* f.endswith('.grib2') of processor.py:305.
EndsWithGrib2(n) == n[Len(n)] = "grib2"

\* processor.py:302-306, the files the scan finds.
files_to_process ==
    {f \in Files : \E n \in Listing : EndsWithGrib2(n) /\ n = SourceName(f)}

----------------------------------------------------------------------------
(* The render loop's iteration space.                                      *)

NVars == Len(VarOrder)

NPos == Len(RegionOrder) * NVars

RegAt(p) == RegionOrder[((p - 1) \div NVars) + 1]

VarAt(p) == VarOrder[((p - 1) % NVars) + 1]

KeyAt(f, p) == <<f, RegAt(p), VarAt(p)>>

\* No horizon test at all: every region takes every lead time.
InHorizonAlways(f, r) == TRUE

\* The horizon test off by one: a lead time equal to max_fhr is left out.
InHorizonStrict(f, r) == fhr_int(f) < REGIONS[r].max_fhr

\* processor.py:114 and :179, "if fhr_int > reg_cfg['max_fhr']: continue".
InHorizon(f, r) == ~(fhr_int(f) > REGIONS[r].max_fhr)

\* The next (region, variable) position after p whose region is in horizon.
NextPos(f, p) ==
    LET later == {q \in (p + 1) .. NPos : InHorizon(f, RegAt(q))}
    IN  IF later = {} THEN NPos + 1
        ELSE CHOOSE q \in later : \A q2 \in later : q <= q2

\* os.path.exists(out_path).
Exists(k) == tile[k] # "absent"

\* The pre-check stopped after the first region.
TasksNeededFirstRegion(f) ==
    \E v \in VarKeys : REPROCESS \/ ~Exists(<<f, RegionOrder[1], v>>)

\* processor.py:111-120, tasks_needed.
TasksNeeded(f) ==
    \E r \in Regions : InHorizon(f, r) /\
        \E v \in VarKeys : REPROCESS \/ ~Exists(<<f, r, v>>)

\* The cache test made on json_path instead of out_path.
TileCachedBySidecar(k) == ~REPROCESS /\ sidecar[k] # "absent"

\* processor.py:214, "if not REPROCESS and os.path.exists(out_path)".
TileCached(k) == ~REPROCESS /\ Exists(k)

\* sorted(files) of processor.py:304, as a sequence.
RECURSIVE SortedSeq(_)
SortedSeq(S) ==
    IF S = {} THEN <<>>
    ELSE LET m == CHOOSE x \in S : \A y \in S : fhr_int(x) <= fhr_int(y)
         IN  <<m>> \o SortedSeq(S \ {m})

\* Which return statement of process_file gives True.
ReturnValue(r) == r \in {"cached", "done"}

----------------------------------------------------------------------------
(* Tile names (processor.py:100-107, :210-212) and the catalog builder of  *)
(* the web application (app.py:63-71). A name is the sequence of its       *)
(* pieces, cut at every '_' and before the extension; '_' and the          *)
(* extension are pieces of their own.                                      *)

\* The pieces of a region name or of a VAR_CONFIG key.
Pieces(t) == IF t = "wind_speed" THEN <<"wind", "_", "speed">> ELSE <<t>>

\* processor.py:107, the date part of the directory name data/<date>_<run>.
date_str == "20231027"

\* processor.py:102, parts[1][1:3] of aigfs.t12z.sfc.f<fhr>.grib2.
run == "12"

\* processor.py:103, parts[3][1:].
fhr_str(f) == CASE f = "f168" -> "168"
                [] f = "f174" -> "174"

\* processor.py:210,
\* f"aigfs_{reg_name}_{date_str}_{run}_{fhr_str}_{var_key}.png".
out_filename(k) ==
    <<"aigfs", "_">> \o Pieces(k[2]) \o <<"_", date_str, "_", run, "_",
    fhr_str(k[1]), "_">> \o Pieces(k[3]) \o <<".png">>

\* processor.py:212, out_path.replace('.png', '.json').
json_filename(k) ==
    [i \in 1 .. Len(out_filename(k)) |->
        IF out_filename(k)[i] = ".png" THEN ".json" ELSE out_filename(k)[i]]

\* app.py:63, os.listdir(maps_dir).
listdir ==
    {out_filename(k) : k \in {j \in Keys : tile[j] # "absent"}}
    \cup {json_filename(k) : k \in {j \in Keys : sidecar[j] # "absent"}}

\* app.py:68, "f.endswith('.png') and not f.startswith('legend_')".
IsTileName(n) ==
    /\ n[Len(n)] = ".png"
    /\ ~(Len(n) > 1 /\ n[1] = "legend" /\ n[2] = "_")

\* app.py:69, f.replace('.png', '').split('_').
parts(n) == SelectSeq(SelectSeq(n, LAMBDA t : t # ".png"),
                      LAMBDA t : t # "_")

\* app.py:67-71: the (region, date, run, fhr, var) entries the catalog gets
\* from the names in the output directory.
Catalog ==
    {<<parts(n)[2], parts(n)[3], parts(n)[4], parts(n)[5], parts(n)[6]>> :
        n \in {m \in listdir : IsTileName(m) /\ Len(parts(m)) = 6}}

----------------------------------------------------------------------------
\* The service starts on an empty output directory, with whatever source
\* files the downloader has left under data/.
Init ==
    /\ sources \in SUBSET Files
    /\ tile = [k \in Keys |-> "absent"]
    /\ sidecar = [k \in Keys |-> "absent"]
    /\ idx = {}
    /\ idxBy = <<>>
    /\ phase = "scan"
    /\ queue = <<>>
    /\ result = [f \in Files |-> "none"]
    /\ wk = [w \in Workers |-> Idle]
    /\ data_cache = [f \in Files |-> {}]
    /\ mem = [f \in Files |-> -1]
    /\ failed = {}
    /\ disp = [k \in Keys |-> "none"]
    /\ log = {}
    /\ faults = 0
    /\ prev = FALSE
    /\ var_key = "none"
    /\ longitude = <<>>
    /\ latitude = <<>>
    /\ interp = <<>>
    /\ stats = <<0, 0>>
    /\ rgba = <<>>
    /\ png = <<>>
    /\ stage = "off"
    /\ dl = [pc |-> "off", at |-> 0]
    /\ temps = {}
    /\ partial = {}
    /\ max_retries = 0
    /\ delay = 0
    /\ rt_pc = "off"
    /\ rt_i = 0
    /\ rt_calls = <<>>
    /\ rt_slept = 0
    /\ rt_ret = "none"

\* An abnormal outcome is drawn only while the budget lasts.
Spend(abnormal) ==
    /\ abnormal => faults < MaxFaults
    /\ faults' = IF abnormal THEN faults + 1 ELSE faults

----------------------------------------------------------------------------
(* run_processor_service, processor.py:294-323.                            *)

\* processor.py:300-313: the scan, and Pool(MAX_WORKERS) forking its workers.
Scan ==
    /\ phase = "scan"
    /\ queue' = SortedSeq(files_to_process)
    /\ phase' = IF files_to_process = {} THEN "sweep" ELSE "map"
    /\ result' = [f \in Files |->
                     IF f \in files_to_process THEN "pending" ELSE "none"]
    /\ data_cache' = [f \in Files |-> {}]
    /\ mem' = [f \in Files |-> -1]
    /\ failed' = {}
    /\ disp' = [k \in Keys |-> "none"]
    /\ log' = {}
    /\ prev' = ((\E f \in Files : result[f] # "none")
                 /\ \A f \in Files :
                       result[f] # "none" => ReturnValue(result[f]))
    /\ UNCHANGED <<raster, retrier, net, sources, disk, wk, faults>>

\* The batch handed to the pool without waiting for its results.
PoolDoneAsync ==
    /\ phase = "map"
    /\ phase' = "sweep"
    /\ UNCHANGED <<raster, retrier, net, prev, sources, tile, sidecar, idx,
                   idxBy, queue, result, wk, data_cache, mem, failed, disp,
                   log, faults>>

\* processor.py:312-313: pool.map has returned every result and the pool's
\* processes have exited.
PoolDone ==
    /\ phase = "map"
    /\ queue = <<>>
    /\ \A w \in Workers : wk[w].pc = "idle"
    /\ phase' = "sweep"
    /\ idxBy' = [n \in idx |-> 0]
    /\ UNCHANGED <<raster, retrier, net, prev, sources, tile, sidecar, idx, queue, result, wk, data_cache,
                   mem, failed, disp, log, faults>>

\* processor.py:315-320: the sweep of index files.
Sweep ==
    /\ phase = "sweep"
    /\ idx' = {n \in idx : ~IsOrphan(n)}
    /\ idxBy' = [n \in idx' |-> idxBy[n]]
    /\ sources' = {f \in sources : ~IsOrphan(SourceName(f))}
    /\ temps' = {n \in temps : ~IsOrphan(n)}
    /\ partial' = {n \in partial : ~IsOrphan(n)}
    /\ phase' = "sleep"
    /\ UNCHANGED <<raster, retrier, dl, prev, tile, sidecar, queue, result,
                   wk, data_cache, mem, failed, disp, log, faults>>

\* A cycle did useful work: it rendered at least one tile.
Worked == \E k \in Keys : disp[k] = "render"

\* processor.py:323, the argument of time.sleep, in seconds, after a cycle
\* that did (worked) or did not do useful work.
SleepSeconds(worked) == 60

\* processor.py:322-323: time.sleep(60), then the next cycle.
Sleep ==
    /\ phase = "sleep"
    /\ phase' = "scan"
    /\ UNCHANGED <<raster, retrier, net, prev, sources, disk, queue, result, wk, data_cache, mem, failed,
                   disp, log, faults>>

----------------------------------------------------------------------------
(* process_file, processor.py:83-276.                                      *)

\* A return statement of process_file: the worker is free again.
Return(w, f, r, printed) ==
    /\ wk' = [wk EXCEPT ![w] = Idle]
    /\ result' = [result EXCEPT ![f] = r]
    /\ log' = log \cup printed

\* The end of one iteration of the loop of processor.py:209: the next key in
\* horizon, or "return True" of processor.py:272.
Advance(w) ==
    LET f == wk[w].file
        q == NextPos(f, wk[w].pos)
    IN  IF q > NPos
        THEN Return(w, f, "done", {})
        ELSE /\ wk' = [wk EXCEPT ![w].pc = "render", ![w].pos = q]
             /\ UNCHANGED <<result, log>>

\* No except clause: the exception leaves process_file.
RaiseEscapes(w, r) ==
    /\ wk' = [wk EXCEPT ![w].pc = "raised"]
    /\ UNCHANGED <<result, log>>

\* The except clause of processor.py:274-276.
Raise(w, r) == Return(w, wk[w].file, r, {<<"Error processing", wk[w].file>>})

\* A file handed to a worker stays in the queue.
RemainingAll(q) == q

\* processor.py:313, pool.map hands every item of the list to one worker:
\* what is left to hand out after the first item has gone.
Remaining(q) == Tail(q)

\* An idle pool worker takes the next file (idle workers are interchangeable:
\* the first of them takes it); processor.py:91-125: the memory check, the
\* cache pre-check, and the "Processing" line.
StartTask(w) ==
    /\ phase = "map"
    /\ wk[w].pc = "idle"
    /\ \A v \in Workers : v < w => wk[v].pc # "idle"
    /\ queue # <<>>
    /\ queue' = Remaining(queue)
    /\ LET f == Head(queue) IN
       \E avail \in AvailGB :
          /\ Spend(LowRam(avail))
          /\ mem' = [mem EXCEPT ![f] = avail]
          /\ IF LowRam(avail)
             THEN Return(w, f, "lowram", {<<"Skipping due to low RAM">>})
             ELSE IF ~TasksNeeded(f)
             THEN Return(w, f, "cached", {})
             ELSE /\ wk' = [wk EXCEPT ![w] = [Idle EXCEPT !.pc = "load",
                                                !.file = f, !.li = 1]]
                  /\ log' = log \cup {<<"Processing", f>>}
                  /\ result' = result
    /\ UNCHANGED <<raster, retrier, net, prev, sources, disk, phase, data_cache, failed, disp>>

\* The index file of the decode call worker w is at.
CurIndex(w) == IndexPath(wk[w].file, LoadOrder[wk[w].li], getpid(w))

\* The composite started after the first load_var call.
NextLoadSkipsRest(w) == [wk[w] EXCEPT !.pc = "derive", !.li = 0]

\* After a load_var call returns: the next call, or the composite.
NextLoad(w) ==
    IF wk[w].li < Len(LoadOrder)
    THEN [wk[w] EXCEPT !.pc = "load", !.li = @ + 1]
    ELSE [wk[w] EXCEPT !.pc = "derive", !.li = 0]

\* processor.py:141-143: xr.open_dataset builds the index file at index_path,
\* or opens the one it finds there.
OpenIndex(w) ==
    /\ wk[w].pc = "load"
    /\ idx' = idx \cup {CurIndex(w)}
    /\ idxBy' = [n \in idx' |-> IF n \in idx THEN idxBy[n] ELSE w]
    /\ wk' = [wk EXCEPT ![w].pc = "decoding"]
    /\ UNCHANGED <<raster, retrier, net, prev, sources, tile, sidecar, phase, queue, result, data_cache,
                   mem, failed, disp, log, faults>>

\* processor.py:144-160: the rest of load_var. "ok": the variable is put in
\* data_cache and the index removed (:151-157); "absent": no data_vars, the
\* index removed (:144-149); "error": open_dataset or the coordinate fix
\* raised, the except clause (:158-160).
FinishDecode(w) ==
    /\ wk[w].pc = "decoding"
    /\ LET f == wk[w].file
           name == LoadOrder[wk[w].li]
       IN  \E out \in {"ok", "absent", "error"} :
              /\ Spend(out # "ok")
              /\ idx' = IF out = "error" THEN idx ELSE idx \ {CurIndex(w)}
              /\ idxBy' = [n \in idx' |-> idxBy[n]]
              /\ data_cache' = IF out = "ok"
                               THEN [data_cache EXCEPT ![f] = @ \cup {name}]
                               ELSE data_cache
              /\ failed' = IF out = "error" THEN failed \cup {<<f, name>>}
                           ELSE failed
    /\ wk' = [wk EXCEPT ![w] = NextLoad(w)]
    /\ UNCHANGED <<raster, retrier, net, prev, sources, tile, sidecar, phase, queue, result, mem, disp,
                   log>>

\* The composite built as soon as either constituent is there.
CompositeReadyEither(cache) == cache \cap {"u10", "v10"} # {}

\* processor.py:172, "if 'u10' in data_cache and 'v10' in data_cache".
CompositeReady(cache) == {"u10", "v10"} \subseteq cache

\* processor.py:171-175: the wind-speed composite; then the first key of the
\* render loop.
Derive(w) ==
    /\ wk[w].pc = "derive"
    /\ LET f == wk[w].file
           q == NextPos(f, 0)
       IN  /\ data_cache' =
                IF CompositeReady(data_cache[f])
                THEN [data_cache EXCEPT ![f] = @ \cup {"wind_speed"}]
                ELSE data_cache
           /\ IF q > NPos
              THEN Return(w, f, "done", {})
              ELSE /\ wk' = [wk EXCEPT ![w].pc = "render", ![w].pos = q]
                   /\ UNCHANGED <<result, log>>
    /\ UNCHANGED <<raster, retrier, net, prev, sources, disk, phase, queue, mem, failed, disp, faults>>

\* An empty crop taken for a failure of the task.
EmptyCropRaises(w) == Raise(w, "err_render")

\* processor.py:228, "if data_crop.size == 0: continue".
EmptyCrop(w) == Advance(w)

\* processor.py:209-263, one (region, variable) key up to the point where
\* img.save has opened out_path. "empty": data_crop.size == 0 (:228);
\* "raised": unit conversion, crop, interpolation or colour mapping raised;
\* "render": the image is rendered and out_path is open for writing.
TileStep(w) ==
    /\ wk[w].pc = "render"
    /\ LET f == wk[w].file
           k == KeyAt(f, wk[w].pos)
       IN  IF TileCached(k)
           THEN /\ disp' = [disp EXCEPT ![k] = "cached"]
                /\ Advance(w)
                /\ UNCHANGED <<tile, faults>>
           ELSE IF ConfigKey(k[3]) \notin data_cache[f]
           THEN /\ disp' = [disp EXCEPT ![k] = "nodata"]
                /\ Advance(w)
                /\ UNCHANGED <<tile, faults>>
           ELSE \E out \in {"empty", "raised", "render"} :
                   /\ Spend(out # "render")
                   /\ disp' = [disp EXCEPT ![k] = out]
                   /\ CASE out = "empty" -> EmptyCrop(w) /\ tile' = tile
                        [] out = "raised" ->
                             Raise(w, "err_render") /\ tile' = tile
                        [] out = "render" ->
                             /\ tile' = [tile EXCEPT ![k] = "partial"]
                             /\ wk' = [wk EXCEPT ![w].pc = "saving",
                                                 ![w].created = ~Exists(k)]
                             /\ UNCHANGED <<result, log>>
    /\ UNCHANGED <<raster, retrier, net, prev, sources, sidecar, idx, idxBy, phase, queue, data_cache,
                   mem, failed>>

\* processor.py:263, img.save writing the PNG. "ok": the file is complete;
\* "kept": the write failed and the incomplete file stays; "removed": the
\* write failed and the imaging library deleted the file it had created.
SaveImage(w) ==
    /\ wk[w].pc = "saving"
    /\ LET k == KeyAt(wk[w].file, wk[w].pos) IN
       \E out \in {"ok", "kept"} \cup
                  (IF wk[w].created THEN {"removed"} ELSE {}) :
          /\ Spend(out # "ok")
          /\ tile' = [tile EXCEPT ![k] =
                         CASE out = "ok" -> "full"
                           [] out = "kept" -> "partial"
                           [] out = "removed" -> "absent"]
          /\ IF out = "ok"
             THEN /\ wk' = [wk EXCEPT ![w].pc = "stats"]
                  /\ UNCHANGED <<result, log>>
             ELSE Raise(w, "err_write")
    /\ UNCHANGED <<raster, retrier, net, prev, sources, sidecar, idx, idxBy, phase, queue, data_cache,
                   mem, failed, disp>>

\* processor.py:265-267, the stats sidecar. "ok": written; "truncated": the
\* file was opened for writing and the write failed; "denied": open failed.
SaveStats(w) ==
    /\ wk[w].pc = "stats"
    /\ LET k == KeyAt(wk[w].file, wk[w].pos) IN
       \E out \in {"ok", "truncated", "denied"} :
          /\ Spend(out # "ok")
          /\ sidecar' = [sidecar EXCEPT ![k] =
                            CASE out = "ok" -> "full"
                              [] out = "truncated" -> "partial"
                              [] out = "denied" -> @]
          /\ IF out = "ok" THEN Advance(w) ELSE Raise(w, "err_write")
    /\ UNCHANGED <<raster, retrier, net, prev, sources, tile, idx, idxBy, phase, queue, data_cache, mem,
                   failed, disp>>

Next ==
    \/ Scan
    \/ PoolDone
    \/ Sweep
    \/ Sleep
    \/ \E w \in Workers : StartTask(w)
    \/ \E w \in Workers : OpenIndex(w)
    \/ \E w \in Workers : FinishDecode(w)
    \/ \E w \in Workers : Derive(w)
    \/ \E w \in Workers : TileStep(w)
    \/ \E w \in Workers : SaveImage(w)
    \/ \E w \in Workers : SaveStats(w)

Spec == Init /\ [][Next]_vars

----------------------------------------------------------------------------
(* The downloader, scraper.py:6-79, running beside the processor.          *)

\* scraper.py:67, forecast_hours in order.
forecast_hours == SortedSeq(Files)

\* scraper.py:18, target_path.
target_path(f) == SourceName(f)

\* The download written straight to the final path.
temp_path_is_target(f) == target_path(f)

\* scraper.py:33, temp_path = target_path + ".tmp".
temp_path(f) == target_path(f) \o <<"tmp">>

\* os.path.getsize(target_path) of a file found there: at the limit of
\* scraper.py:21 and just above it.
Sizes == {1000, 1001}

\* The forecast hour the downloader is at.
DlFile == forecast_hours[dl.at]

\* scraper.py:15, the next iteration of the loop over forecast_hours, or the
\* return of download_aigfs_data.
DlContinue ==
    IF dl.at < Len(forecast_hours)
    THEN [pc |-> "check", at |-> dl.at + 1]
    ELSE [pc |-> "sleep", at |-> 0]

\* scraper.py:20-22: a target that exists and is larger than 1000 bytes is
\* not downloaded again.
DlCheck ==
    /\ dl.pc = "check"
    /\ \/ /\ DlFile \in sources
          /\ \E size \in Sizes :
                dl' = IF size > 1000 THEN DlContinue
                      ELSE [dl EXCEPT !.pc = "get"]
       \/ /\ DlFile \notin sources
          /\ dl' = [dl EXCEPT !.pc = "get"]
    /\ UNCHANGED <<service, temps, partial, raster, retrier>>

\* scraper.py:26-34: the request. "404": not yet available; "error": the
\* request or raise_for_status raised, the except clause of :42-43; "200":
\* temp_path is opened for writing.
DlGet ==
    /\ dl.pc = "get"
    /\ \E response \in {"200", "404", "error"} :
          IF response = "200"
          THEN LET p == temp_path(DlFile) IN
               /\ sources' = IF p = target_path(DlFile)
                             THEN sources \cup {DlFile} ELSE sources
               /\ temps' = IF p = target_path(DlFile)
                           THEN temps ELSE temps \cup {p}
               /\ partial' = partial \cup {p}
               /\ dl' = [dl EXCEPT !.pc = "write"]
          ELSE /\ dl' = DlContinue
               /\ UNCHANGED <<sources, temps, partial>>
    /\ UNCHANGED <<tile, sidecar, idx, idxBy, phase, queue, result, wk,
                   data_cache, mem, failed, disp, log, faults, prev, raster,
                   retrier>>

\* scraper.py:35-36: the chunks. "done": every chunk is written and the file
\* closed; "raised": the connection broke, the except clause of :42-43.
DlWrite ==
    /\ dl.pc = "write"
    /\ \E out \in {"done", "raised"} :
          IF out = "done"
          THEN /\ partial' = partial \ {temp_path(DlFile)}
               /\ dl' = [dl EXCEPT !.pc = "replace"]
          ELSE /\ partial' = partial
               /\ dl' = DlContinue
    /\ UNCHANGED <<service, temps, raster, retrier>>

\* scraper.py:39-41: os.replace(temp_path, target_path).
DlReplace ==
    /\ dl.pc = "replace"
    /\ LET p == temp_path(DlFile) IN
       /\ sources' = sources \cup {DlFile}
       /\ temps' = temps \ {p}
       /\ partial' = IF p \in partial
                     THEN (partial \ {p}) \cup {target_path(DlFile)}
                     ELSE partial \ {target_path(DlFile)}
    /\ dl' = DlContinue
    /\ UNCHANGED <<tile, sidecar, idx, idxBy, phase, queue, result, wk,
                   data_cache, mem, failed, disp, log, faults, prev, raster,
                   retrier>>

\* scraper.py:69-79: the hour of sleep, then the next check of the runs.
DlSleep ==
    /\ dl.pc = "sleep"
    /\ dl' = [pc |-> "check", at |-> 1]
    /\ UNCHANGED <<service, temps, partial, raster, retrier>>

\* Both services started on empty directories; the processor meets no
\* abnormal outcome.
DownloadInit ==
    /\ sources = {}
    /\ tile = [k \in Keys |-> "absent"]
    /\ sidecar = [k \in Keys |-> "absent"]
    /\ idx = {}
    /\ idxBy = <<>>
    /\ phase = "scan"
    /\ queue = <<>>
    /\ result = [f \in Files |-> "none"]
    /\ wk = [w \in Workers |-> Idle]
    /\ data_cache = [f \in Files |-> {}]
    /\ mem = [f \in Files |-> -1]
    /\ failed = {}
    /\ disp = [k \in Keys |-> "none"]
    /\ log = {}
    /\ faults = MaxFaults
    /\ prev = FALSE
    /\ var_key = "none"
    /\ longitude = <<>>
    /\ latitude = <<>>
    /\ interp = <<>>
    /\ stats = <<0, 0>>
    /\ rgba = <<>>
    /\ png = <<>>
    /\ stage = "off"
    /\ dl = [pc |-> "check", at |-> 1]
    /\ temps = {}
    /\ partial = {}
    /\ max_retries = 0
    /\ delay = 0
    /\ rt_pc = "off"
    /\ rt_i = 0
    /\ rt_calls = <<>>
    /\ rt_slept = 0
    /\ rt_ret = "none"

DownloadNext ==
    \/ Scan
    \/ PoolDone
    \/ Sweep
    \/ Sleep
    \/ \E w \in Workers : StartTask(w)
    \/ \E w \in Workers : OpenIndex(w)
    \/ \E w \in Workers : FinishDecode(w)
    \/ \E w \in Workers : Derive(w)
    \/ \E w \in Workers : TileStep(w)
    \/ \E w \in Workers : SaveImage(w)
    \/ \E w \in Workers : SaveStats(w)
    \/ DlCheck
    \/ DlGet
    \/ DlWrite
    \/ DlReplace
    \/ DlSleep

SpecDownload == DownloadInit /\ [][DownloadNext]_vars

----------------------------------------------------------------------------
(* One field from load_var to its tile, sample by sample:                  *)
(* processor.py:151-155 and :220-267.                                      *)
(*                                                                         *)
(* A coordinate is a float64; <<d, e>> stands for d + e * 2^-45 degrees,   *)
(* d a whole number of degrees and e a few units of 2^-45, the spacing of  *)
(* float64 between 128 and 256. Sums are rounded to the float64 nearest    *)
(* to the exact result, ties to the even mantissa, as the hardware does.   *)

\* Number of samples of one image.
MaxPixels == 3

\* Whole degrees below which x lies in absolute value, less one.
Magnitude(x) ==
    LET a == IF x[1] < 0 \/ (x[1] = 0 /\ x[2] < 0)
             THEN <<-x[1], -x[2]>> ELSE x
    IN  IF a[2] < 0 /\ a[1] > 0 THEN a[1] - 1 ELSE a[1]

\* The spacing of float64 around x, in units of 2^-45.
Spacing(x) == IF Magnitude(x) >= 512 THEN 4
              ELSE IF Magnitude(x) >= 256 THEN 2 ELSE 1

\* The float64 nearest to x, ties to even.
Round(x) ==
    LET q == Spacing(x)
        lo == (x[2] \div q) * q
        hi == lo + q
    IN  IF x[2] % q = 0 THEN x
        ELSE IF x[2] - lo < hi - x[2] THEN <<x[1], lo>>
        ELSE IF hi - x[2] < x[2] - lo THEN <<x[1], hi>>
        ELSE IF (lo \div q) % 2 = 0 THEN <<x[1], lo>> ELSE <<x[1], hi>>

IsNegative(x) == x[1] < 0 \/ (x[1] = 0 /\ x[2] < 0)

\* fmod(x, 360) for x >= 0: exact.
FmodPos(x) ==
    LET k == (IF x[2] < 0 THEN x[1] - 1 ELSE x[1]) \div 360
    IN  <<x[1] - 360 * k, x[2]>>

\* C's fmod(x, 360): exact, with the sign of x.
Fmod(x) ==
    IF IsNegative(x)
    THEN <<-FmodPos(<<-x[1], -x[2]>>)[1], -FmodPos(<<-x[1], -x[2]>>)[2]>>
    ELSE FmodPos(x)

\* numpy's remainder, "x % 360": fmod, and the divisor added to a negative
\* result.
Remainder(x) ==
    IF IsNegative(Fmod(x))
    THEN Round(<<Fmod(x)[1] + 360, Fmod(x)[2]>>)
    ELSE Fmod(x)

\* processor.py:154, ((val.longitude + 180) % 360) - 180.
fix_longitude(L) ==
    LET m == Remainder(Round(<<L[1] + 180, L[2]>>))
    IN  Round(<<m[1] - 180, m[2]>>)

\* x < y for two coordinates.
Less(x, y) == x[1] < y[1] \/ (x[1] = y[1] /\ x[2] < y[2])

\* processor.py:154, sortby: one coordinate put in ascending order.
RECURSIVE sortby(_)
sortby(c) ==
    IF c = <<>> THEN <<>>
    ELSE LET i == CHOOSE j \in 1 .. Len(c) :
                     \A l \in 1 .. Len(c) : ~Less(c[l], c[j])
         IN  <<c[i]>> \o
             sortby(SubSeq(c, 1, i - 1) \o SubSeq(c, i + 1, Len(c)))

\* Longitudes a decoded field may carry.
LonInputs == {<<-180, -1>>, <<-180, 0>>, <<0, 0>>, <<180, 0>>, <<359, 0>>}

\* Latitudes a decoded field may carry.
LatInputs == {<<90, 0>>, <<-90, 0>>}

\* processor.py:22-26, 'extent': [lon_min, lon_max, lat_min, lat_max].
Extent(r) == CASE r = "global" -> <<-180, 180, -85, 85>>
               [] r = "conus" -> <<-135, -60, 20, 55>>
               [] r = "west" -> <<-145, -100, 25, 50>>

\* A sample is not-a-number or a number, in thousandths of the variable's
\* display unit.
NaN == <<"nan">>

Num(n) == <<"num", n>>

IsNaN(x) == x[1] = "nan"

\* Samples an interpolation may give.
SampleInputs == {NaN, Num(5), Num(10), Num(50), Num(1000000), Num(1001000)}

\* The images of at most MaxPixels samples.
Images == UNION {[1 .. n -> SampleInputs] : n \in 1 .. MaxPixels}

\* processor.py:30, :41, :46 and :36, config['levels'], in thousandths.
Levels(v) ==
    CASE v = "t2m" -> {-40000 + 2000 * i : i \in 0 .. 80}
      [] v = "tp" -> {10, 100, 250, 500, 1000, 1500, 2000, 3000, 4000, 6000,
                      8000, 10000}
      [] v = "prmsl" -> {960000 + 4000 * i : i \in 0 .. 24}
      [] v = "wind_speed" -> {0, 5000, 10000, 15000, 20000, 25000, 30000,
                              40000, 50000, 60000, 80000, 100000}

vmin(v) == CHOOSE l \in Levels(v) : \A m \in Levels(v) : l <= m

vmax(v) == CHOOSE l \in Levels(v) : \A m \in Levels(v) : l >= m

\* cmap.N: the 13 colours of a ListedColormap (processor.py:29, :40), the
\* 256 entries of a LinearSegmentedColormap (:45, :59).
Ncmap(v) == IF v \in {"tp", "wind_speed"} THEN 13 ELSE 256

\* BoundaryNorm with extend='both': one region per interval of the levels
\* and one beyond each end.
n_regions(v) == Cardinality(Levels(v)) + 1

\* A linear norm: the sample's place between the lowest and the highest
\* level, scaled to the colour table.
NormLinear(v, x) ==
    IF IsNaN(x) THEN Ncmap(v)
    ELSE IF x[2] < vmin(v) THEN -1
    ELSE IF x[2] >= vmax(v) THEN Ncmap(v)
    ELSE ((x[2] - vmin(v)) * (Ncmap(v) - 1)) \div (vmax(v) - vmin(v))

\* processor.py:246 and :248, norm(data_interp.values): np.digitize counts
\* the levels not above the sample (not-a-number sorts above every level);
\* with more colours than regions the region index is stretched over the
\* colour table; a sample below the lowest level gets -1, one at or above
\* the highest gets cmap.N.
norm(v, x) ==
    LET b == IF IsNaN(x) THEN Cardinality(Levels(v))
             ELSE Cardinality({l \in Levels(v) : l <= x[2]})
        i == IF Ncmap(v) > n_regions(v)
             THEN ((Ncmap(v) - 1) * b) \div (n_regions(v) - 1)
             ELSE b
    IN  IF IsNaN(x) THEN i
        ELSE IF x[2] < vmin(v) THEN -1
        ELSE IF x[2] >= vmax(v) THEN Ncmap(v)
        ELSE i

\* processor.py:248, cmap(...) of an integer: the entry of the colour table,
\* the first entry below it and the last entry above it; every entry is
\* opaque (alpha 1.0, in tenths).
cmap(v, i) ==
    <<IF i < 0 THEN 0 ELSE IF i > Ncmap(v) - 1 THEN Ncmap(v) - 1 ELSE i, 10>>

\* The mask taking in the threshold itself.
BelowThresholdOrAt(x) == ~IsNaN(x) /\ x[2] <= 10

\* processor.py:252, "data_interp.values < 0.01": false for not-a-number.
BelowThreshold(x) == ~IsNaN(x) /\ x[2] < 10

\* processor.py:262, (rgba_data * 255).astype(np.uint8), for the alpha
\* channel in tenths.
uint8(alpha) == (alpha * 255) \div 10

\* A field as cfgrib gives it: two longitudes, two latitudes.
RasterInit ==
    /\ sources = {}
    /\ tile = [k \in Keys |-> "absent"]
    /\ sidecar = [k \in Keys |-> "absent"]
    /\ idx = {}
    /\ idxBy = <<>>
    /\ phase = "map"
    /\ queue = <<>>
    /\ result = [f \in Files |-> "none"]
    /\ wk = [w \in Workers |-> Idle]
    /\ data_cache = [f \in Files |-> {}]
    /\ mem = [f \in Files |-> -1]
    /\ failed = {}
    /\ disp = [k \in Keys |-> "none"]
    /\ log = {}
    /\ faults = 0
    /\ prev = FALSE
    /\ var_key \in VarKeys
    /\ longitude \in [1 .. 2 -> LonInputs]
    /\ latitude \in [1 .. 2 -> LatInputs]
    /\ interp = <<>>
    /\ stats = <<0, 0>>
    /\ rgba = <<>>
    /\ png = <<>>
    /\ stage = "decoded"
    /\ dl = [pc |-> "off", at |-> 0]
    /\ temps = {}
    /\ partial = {}
    /\ max_retries = 0
    /\ delay = 0
    /\ rt_pc = "off"
    /\ rt_i = 0
    /\ rt_calls = <<>>
    /\ rt_slept = 0
    /\ rt_ret = "none"

\* processor.py:151-155: the longitude fix, the sort of both axes, and the
\* field put in data_cache.
Normalize ==
    /\ stage = "decoded"
    /\ longitude' = sortby([i \in 1 .. Len(longitude) |->
                               fix_longitude(longitude[i])])
    /\ latitude' = sortby(latitude)
    /\ stage' = "cached"
    /\ UNCHANGED <<service, net, retrier, var_key, interp, stats, rgba, png>>

\* processor.py:220-233: unit conversion, crop to a region and interpolation
\* to the region's target grid, whose corners become the coordinates. The
\* crop is empty (:228), or the interpolation gives the samples.
Resample ==
    /\ stage = "cached"
    /\ \/ /\ stage' = "empty"
          /\ UNCHANGED <<longitude, latitude, interp>>
       \/ \E r \in Regions, img \in Images :
             /\ longitude' = <<<<Extent(r)[1], 0>>, <<Extent(r)[2], 0>>>>
             /\ latitude' = <<<<Extent(r)[4], 0>>, <<Extent(r)[3], 0>>>>
             /\ interp' = img
             /\ stage' = "interp"
    /\ UNCHANGED <<service, net, retrier, var_key, stats, rgba, png>>

\* processor.py:236-241: min and max of the samples that are numbers.
Stats ==
    /\ stage = "interp"
    /\ LET valid_values ==
               {interp[i][2] : i \in {j \in 1 .. Len(interp) :
                                         ~IsNaN(interp[j])}}
       IN  stats' =
               IF valid_values = {} THEN <<0, 0>>
               ELSE <<CHOOSE m \in valid_values :
                          \A n \in valid_values : m <= n,
                      CHOOSE m \in valid_values :
                          \A n \in valid_values : m >= n>>
    /\ stage' = "stats"
    /\ UNCHANGED <<service, net, retrier, var_key, longitude, latitude, interp, rgba, png>>

\* processor.py:244-248: the colour of every sample.
Colormap ==
    /\ stage = "stats"
    /\ rgba' = [i \in 1 .. Len(interp) |->
                   cmap(var_key, norm(var_key, interp[i]))]
    /\ stage' = "colored"
    /\ UNCHANGED <<service, net, retrier, var_key, longitude, latitude, interp, stats, png>>

\* processor.py:250-258: the alpha channel.
Mask ==
    /\ stage = "colored"
    /\ rgba' = [i \in 1 .. Len(rgba) |->
                   IF var_key = "tp"
                   THEN IF BelowThreshold(interp[i])
                        THEN <<rgba[i][1], 0>> ELSE rgba[i]
                   ELSE <<rgba[i][1], 7>>]
    /\ stage' = "masked"
    /\ UNCHANGED <<service, net, retrier, var_key, longitude, latitude, interp, stats, png>>

\* processor.py:261-267: the image array, the PNG and the sidecar.
Save ==
    /\ stage = "masked"
    /\ png' = [i \in 1 .. Len(rgba) |-> <<rgba[i][1], uint8(rgba[i][2])>>]
    /\ stage' = "saved"
    /\ UNCHANGED <<service, net, retrier, var_key, longitude, latitude, interp, stats, rgba>>

RasterNext ==
    \/ Normalize
    \/ Resample
    \/ Stats
    \/ Colormap
    \/ Mask
    \/ Save

SpecRaster == RasterInit /\ [][RasterNext]_vars

----------------------------------------------------------------------------
(* retry_on_failure, observation_fetcher.py:30-44: one call of the wrapper *)
(* around a function that raises or returns.                               *)

\* Largest max_retries a wrapper is built with.
MaxRetries == 4

\* What an invocation of the wrapped function may return; "None" is the
\* None get_latest_observation returns when the request gave no data.
Results == {"None", "observation"}

\* The first call and max_retries retries after it.
RangePlusOne(n) == 0 .. n

\* observation_fetcher.py:35, range(max_retries).
Range(n) == 0 .. n - 1

RetryInit ==
    /\ sources = {}
    /\ tile = [k \in Keys |-> "absent"]
    /\ sidecar = [k \in Keys |-> "absent"]
    /\ idx = {}
    /\ idxBy = <<>>
    /\ phase = "scan"
    /\ queue = <<>>
    /\ result = [f \in Files |-> "none"]
    /\ wk = [w \in Workers |-> Idle]
    /\ data_cache = [f \in Files |-> {}]
    /\ mem = [f \in Files |-> -1]
    /\ failed = {}
    /\ disp = [k \in Keys |-> "none"]
    /\ log = {}
    /\ faults = 0
    /\ prev = FALSE
    /\ var_key = "none"
    /\ longitude = <<>>
    /\ latitude = <<>>
    /\ interp = <<>>
    /\ stats = <<0, 0>>
    /\ rgba = <<>>
    /\ png = <<>>
    /\ stage = "off"
    /\ dl = [pc |-> "off", at |-> 0]
    /\ temps = {}
    /\ partial = {}
    /\ max_retries \in 0 .. MaxRetries
    /\ delay \in {1, 2}
    /\ rt_pc = "loop"
    /\ rt_i = 0
    /\ rt_calls = <<>>
    /\ rt_slept = 0
    /\ rt_ret = "none"

\* observation_fetcher.py:35 and :41-42: the next iteration of the loop, or
\* the error line and "return None" after the last.
RtLoop ==
    /\ rt_pc = "loop"
    /\ IF rt_i \in Range(max_retries)
       THEN rt_pc' = "try" /\ rt_ret' = rt_ret
       ELSE rt_pc' = "returned" /\ rt_ret' = "None"
    /\ UNCHANGED <<service, raster, net, max_retries, delay, rt_i, rt_calls,
                   rt_slept>>

\* observation_fetcher.py:36-39: "return func(*args, **kwargs)", or the
\* except clause.
RtTry ==
    /\ rt_pc = "try"
    /\ \E out \in Results \cup {"raise"} :
          /\ rt_calls' = Append(rt_calls, out)
          /\ IF out = "raise"
             THEN rt_pc' = "except" /\ rt_ret' = rt_ret
             ELSE rt_pc' = "returned" /\ rt_ret' = out
    /\ UNCHANGED <<service, raster, net, max_retries, delay, rt_i, rt_slept>>

\* observation_fetcher.py:40: time.sleep(delay * (2 ** i)), and the end of
\* the iteration.
RtSleep ==
    /\ rt_pc = "except"
    /\ rt_slept' = rt_slept + delay * (2 ^ rt_i)
    /\ rt_i' = rt_i + 1
    /\ rt_pc' = "loop"
    /\ UNCHANGED <<service, raster, net, max_retries, delay, rt_calls, rt_ret>>

RetryNext ==
    \/ RtLoop
    \/ RtTry
    \/ RtSleep

SpecRetry == RetryInit /\ [][RetryNext]_vars

----------------------------------------------------------------------------
(* The processor under the scheduling the operating system gives it: a     *)
(* process that can take a step takes one, and every library call returns. *)

SpecLive == Init /\ [][Next]_vars /\ WF_vars(Next)

----------------------------------------------------------------------------
(* The claims.                                                             *)

\* The keys of one source file.
KeysOf(f) == {k \in Keys : k[1] = f}

\* C1: when the render loop reaches a key whose tile file already exists and
\* REPROCESS is false, the step it takes runs no crop, regrid or render for
\* that key, opens neither file for writing, and leaves the tile and its
\* sidecar as they were.
C1_CachedKeyIsSkipped ==
    [][\A w \in Workers :
          (/\ wk[w].pc = "render"
           /\ ~REPROCESS
           /\ tile[KeyAt(wk[w].file, wk[w].pos)] # "absent")
          => LET k == KeyAt(wk[w].file, wk[w].pos)
             IN  /\ tile'[k] = tile[k]
                 /\ sidecar'[k] = sidecar[k]
                 /\ disp'[k] \notin {"empty", "raised", "render"}
                 /\ wk'[w].pc \notin {"saving", "stats"}]_vars

\* C1 witness: the render loop has skipped a key whose tile existed.
C1_Witness == \E k \in Keys : disp[k] = "cached" /\ tile[k] # "absent"

\* C2: at the final path a reader sees a tile either absent or complete
\* together with its complete sidecar; no half-written tile or sidecar and
\* no tile without its sidecar is ever there.
C2_TileAndSidecarAtomic ==
    \A k \in Keys :
        /\ tile[k] # "partial"
        /\ sidecar[k] # "partial"
        /\ tile[k] = "full" <=> sidecar[k] = "full"

\* C3: two decode calls in progress at the same time use distinct index
\* paths, and the index file a decode call has open was created by the
\* worker that makes the call, never by another worker.
C3_IndexPathsExclusive ==
    /\ \A v, w \in Workers :
          (v # w /\ wk[v].pc = "decoding" /\ wk[w].pc = "decoding")
          => CurIndex(v) # CurIndex(w)
    /\ \A w \in Workers :
          wk[w].pc = "decoding"
          => (CurIndex(w) \in idx /\ idxBy[CurIndex(w)] = w)

\* C3 witness: two workers are decoding the same variable, each of its own
\* source file, at the same time.
C3_Witness ==
    /\ wk[1].pc = "decoding"
    /\ wk[2].pc = "decoding"
    /\ wk[1].li = wk[2].li
    /\ wk[1].file # wk[2].file

\* The load_var calls of worker w's task that have returned.
Returned(w) ==
    {i \in 1 .. Len(LoadOrder) :
        wk[w].pc \in {"load", "decoding"} => i < wk[w].li}

\* C4: once a load_var call has returned (decoded, variable not found, or
\* error), the index file it created no longer exists.
C4_IndexRemovedOnReturn ==
    \A w \in Workers :
        wk[w].pc # "idle" =>
            \A i \in Returned(w) :
                IndexPath(wk[w].file, LoadOrder[i], getpid(w)) \notin idx

\* The source file an index file was created for: index_path is file_path
\* followed by ".<variable>.<pid>.idx".
ParentOf(n) == SubSeq(n, 1, 2)

\* C5: the sweep removes an index file if and only if its parent source file
\* no longer exists.
C5_SweepRemovesOnlyOrphans ==
    [][(phase = "sweep" /\ phase' = "sleep")
       => \A n \in idx :
             n \notin idx' <=> ParentOf(n) \notin {SourceName(f) : f \in sources}]_vars

\* C6: a task that reads free memory below the floor is deferred: it returns
\* at once without decoding, without creating an index file, without writing
\* a tile or a sidecar and without the error line of a failed task; its
\* source file stays, and the next scan queues it again.
C6_LowMemoryDefers ==
    /\ [](\A f \in Files :
            (mem[f] # -1 /\ mem[f] < MIN_FREE_RAM_GB) =>
                /\ result[f] = "lowram"
                /\ \A w \in Workers : wk[w].file # f
                /\ data_cache[f] = {}
                /\ \A n \in idx : n[1] # f
                /\ \A k \in KeysOf(f) : disp[k] = "none"
                /\ <<"Error processing", f>> \notin log
                /\ <<"Processing", f>> \notin log
                /\ f \in sources)
    /\ [][\A f \in Files :
            (mem[f] = -1 /\ mem'[f] # -1 /\ mem'[f] < MIN_FREE_RAM_GB)
            => (tile' = tile /\ sidecar' = sidecar /\ idx' = idx)]_vars
    /\ [][\A f \in Files :
            (result[f] = "lowram" /\ phase = "scan" /\ phase' # "scan")
            => /\ result'[f] = "pending"
               /\ \E i \in 1 .. Len(queue') : queue'[i] = f]_vars

\* C6 witness: a task has read one GiB free and has been deferred.
C6_Witness == \E f \in Files : mem[f] = 1 /\ result[f] = "lowram"

\* C7: a decode failure of one variable is recorded, does not abort the file,
\* the tiles that depend on the failed variable are skipped, and every tile
\* of the file in horizon whose variable was decoded (and whose tile was not
\* cached, nor its crop empty) is written.
C7_DecodeFailureIsolated ==
    \A f \in Files : \A n \in {"t2m", "tp", "prmsl", "u10", "v10"} :
        <<f, n>> \in failed =>
            /\ <<"Failed to load", n, f>> \in log
            /\ result[f] \notin {"pending", "none"} =>
                  \A r \in Regions, v \in VarKeys :
                     InHorizon(f, r) =>
                        IF ConfigKey(v) \in data_cache[f]
                        THEN \/ tile[<<f, r, v>>] = "full"
                             \/ disp[<<f, r, v>>] = "empty"
                        ELSE disp[<<f, r, v>>] \in {"nodata", "cached"}

\* C8: a failure while cropping, regridding or rendering one key stops
\* neither the remaining keys of the same file nor the other files of the
\* batch from being processed in that cycle.
C8_RenderFailureIsolated ==
    /\ \A f \in Files :
          result[f] = "err_render" =>
             \A r \in Regions, v \in VarKeys :
                InHorizon(f, r) => disp[<<f, r, v>>] # "none"
    /\ phase \in {"sweep", "sleep"} =>
          \A f \in sources : result[f] # "pending"

\* C9: a failure to write a tile or its sidecar is fatal: once a task has
\* ended on one, the service does not go on to the sweep, the sleep and the
\* next cycle.
C9_WriteFailureIsFatal ==
    [][(\E f \in Files : result[f] = "err_write") => phase' = phase]_vars

C11_BeyondHorizonNeverAttempted ==
    /\ [](\A f \in Files, r \in Regions :
            fhr_int(f) > REGIONS[r].max_fhr =>
                /\ \A v \in VarKeys :
                      /\ tile[<<f, r, v>>] = "absent"
                      /\ sidecar[<<f, r, v>>] = "absent"
                      /\ disp[<<f, r, v>>] = "none"
                /\ \A w \in Workers :
                      (wk[w].file = f /\ wk[w].pos > 0)
                      => RegAt(wk[w].pos) # r)
    /\ [][\A f \in Files :
            (mem[f] = -1 /\ mem'[f] >= MIN_FREE_RAM_GB) =>
                (result'[f] = "cached"
                 <=> \A r \in Regions, v \in VarKeys :
                        fhr_int(f) <= REGIONS[r].max_fhr
                        => tile[<<f, r, v>>] # "absent")]_vars
    /\ [](\A f \in Files :
            result[f] = "done" =>
                \A r \in Regions, v \in VarKeys :
                    fhr_int(f) = REGIONS[r].max_fhr
                    => disp[<<f, r, v>>] # "none")

\* C11 witness: the pre-check has found nothing to do for a file although a
\* region beyond its horizon has no tile, and a tile has been written for a
\* lead time equal to the region's max_fhr.
C11_Witness ==
    /\ \E f \in Files :
          /\ result[f] = "cached"
          /\ \E r \in Regions : fhr_int(f) > REGIONS[r].max_fhr
    /\ \E f \in Files, r \in Regions, v \in VarKeys :
          /\ fhr_int(f) = REGIONS[r].max_fhr
          /\ tile[<<f, r, v>>] = "full"

\* C12: for every tile the processor has written, the catalog builder
\* recovers region, date, run, lead time and variable from the tile's name:
\* the name without its extension splits on '_' into the six tokens prefix,
\* region, date, run, lead time, variable.
C12_CatalogRecoversEveryTile ==
    \A k \in Keys :
        tile[k] = "full" =>
            /\ Len(parts(out_filename(k))) = 6
            /\ <<k[2], date_str, run, fhr_str(k[1]), k[3]>> \in Catalog

\* C13: a cycle that follows a cycle in which every task returned True, over
\* the same source files with REPROCESS false, executes no crop, regrid or
\* render step.
C13_SecondRunRendersNothing ==
    prev => \A k \in Keys : disp[k] \notin {"empty", "raised", "render"}

\* C14: the sleep that follows a cycle that rendered at least one tile is
\* shorter than the sleep that follows a cycle that did no work.
C14_ShorterSleepAfterWork ==
    (phase = "sleep" /\ Worked) => SleepSeconds(TRUE) < SleepSeconds(FALSE)

\* A constituent of the wind-speed composite is missing from f's data_cache.
ConstituentMissing(f) == ~({"u10", "v10"} \subseteq data_cache[f])

\* C15: when u10 or v10 is absent after decoding, the composite is not
\* created, the composite step and the wind_speed keys print no error and
\* end no task, no wind_speed tile is cropped, rendered or written for any
\* region, and the task goes on to return True with a tile for every other
\* key in horizon whose variable was decoded.
C15_MissingConstituentSkipsComposite ==
    /\ [](\A f \in Files :
            ConstituentMissing(f) =>
                /\ "wind_speed" \notin data_cache[f]
                /\ \A r \in Regions :
                      disp[<<f, r, "wind_speed">>]
                          \in {"none", "cached", "nodata"})
    /\ [][\A w \in Workers :
            (/\ wk[w].pc = "derive"
             /\ wk'[w] # wk[w]
             /\ ConstituentMissing(wk[w].file))
            => /\ data_cache' = data_cache
               /\ log' = log
               /\ result' = result
               /\ wk'[w].pc = "render"]_vars
    /\ [][\A w \in Workers :
            (/\ wk[w].pc = "render"
             /\ wk'[w] # wk[w]
             /\ VarAt(wk[w].pos) = "wind_speed"
             /\ ConstituentMissing(wk[w].file))
            => /\ tile' = tile
               /\ sidecar' = sidecar
               /\ log' = log
               /\ result'[wk[w].file] \in {result[wk[w].file], "done"}]_vars
    /\ [](\A f \in Files :
            (ConstituentMissing(f) /\ result[f] = "done") =>
                \A r \in Regions, v \in VarKeys :
                    (InHorizon(f, r) /\ ConfigKey(v) \in data_cache[f])
                    => \/ tile[<<f, r, v>>] # "absent"
                       \/ disp[<<f, r, v>>] = "empty")

\* C15 witness: a task has returned True with u10 decoded and v10 absent; it
\* passed over the wind_speed key and wrote the t2m tile of the same region.
C15_Witness ==
    \E f \in Files :
        /\ result[f] = "done"
        /\ "u10" \in data_cache[f]
        /\ "v10" \notin data_cache[f]
        /\ disp[<<f, "global", "wind_speed">>] = "nodata"
        /\ disp[<<f, "global", "t2m">>] = "render"
        /\ tile[<<f, "global", "t2m">>] = "full"

\* C16: a key whose crop selects no sample gets no tile and no sidecar, the
\* step that finds the crop empty prints no error and ends the task only by
\* returning True after the last key, and the remaining keys of the file are
\* processed.
C16_EmptyCropSkipsKey ==
    /\ [](\A k \in Keys :
            disp[k] = "empty"
            => (tile[k] = "absent" /\ sidecar[k] = "absent"))
    /\ [][\A w \in Workers :
            (/\ wk[w].pc = "render"
             /\ disp[KeyAt(wk[w].file, wk[w].pos)] # "empty"
             /\ disp'[KeyAt(wk[w].file, wk[w].pos)] = "empty")
            => /\ tile' = tile
               /\ sidecar' = sidecar
               /\ log' = log
               /\ IF NextPos(wk[w].file, wk[w].pos) > NPos
                  THEN result'[wk[w].file] = "done"
                  ELSE /\ result' = result
                       /\ wk'[w].pc = "render"
                       /\ wk'[w].pos = NextPos(wk[w].file, wk[w].pos)]_vars
    /\ [](\A f \in Files :
            (result[f] = "done" /\ \E k \in KeysOf(f) : disp[k] = "empty")
            => \A r \in Regions, v \in VarKeys :
                  InHorizon(f, r) => disp[<<f, r, v>>] # "none")

\* C16 witness: a task found the crop of its first key empty, went on to
\* render the next key, and returned True.
C16_Witness ==
    \E f \in Files :
        /\ result[f] = "done"
        /\ disp[<<f, "global", "t2m">>] = "empty"
        /\ tile[<<f, "global", "t2m">>] = "absent"
        /\ disp[<<f, "global", "tp">>] = "render"
        /\ tile[<<f, "global", "tp">>] = "full"

\* The samples of the image that are numbers.
Valid == {i \in 1 .. Len(interp) : ~IsNaN(interp[i])}

\* C17: the sidecar's min and max are the least and the greatest of the
\* samples that are numbers; when every sample is not-a-number they are both
\* 0 and the tile is written with alpha 0 in every pixel.
C17_AllNaNTileIsTransparent ==
    stage = "saved" =>
        /\ Valid # {} =>
              /\ \E i \in Valid : stats[1] = interp[i][2]
              /\ \E i \in Valid : stats[2] = interp[i][2]
              /\ \A i \in Valid :
                    stats[1] <= interp[i][2] /\ interp[i][2] <= stats[2]
        /\ Valid = {} =>
              /\ stats = <<0, 0>>
              /\ Len(png) = Len(interp)
              /\ \A i \in 1 .. Len(png) : png[i][2] = 0

\* C18: in a tp tile every pixel whose sample is below the threshold of
\* 0.01 has alpha 0, whatever its colour, and every pixel whose sample is at
\* or above the threshold is fully opaque, in rgba_data and in the image
\* saved.
C18_ThresholdMask ==
    (var_key = "tp" /\ stage \in {"masked", "saved"}) =>
        \A i \in Valid :
            /\ interp[i][2] < 10 =>
                  /\ rgba[i][2] = 0
                  /\ stage = "saved" => png[i][2] = 0
            /\ interp[i][2] >= 10 =>
                  /\ rgba[i][2] = 10
                  /\ stage = "saved" => png[i][2] = 255

\* C18 witness: a saved tp tile with a sample of half the threshold, drawn
\* with alpha 0, and a sample of exactly the threshold, drawn opaque.
C18_Witness ==
    /\ var_key = "tp"
    /\ stage = "saved"
    /\ \E i, j \in 1 .. Len(interp) :
          /\ interp[i] = Num(5)
          /\ png[i][2] = 0
          /\ interp[j] = Num(10)
          /\ png[j][2] = 255

\* Two samples lie in the same bucket of v's levels: the same levels are at
\* or below both.
SameBucket(v, x, y) ==
    /\ ~IsNaN(x)
    /\ ~IsNaN(y)
    /\ \A l \in Levels(v) : (l <= x[2]) <=> (l <= y[2])

\* C19: two samples of one image that lie in the same bucket of the
\* variable's levels have the same colour; a sample below the lowest level
\* has the first colour of the ramp and a sample above the highest level
\* the last.
C19_BucketColour ==
    stage \in {"colored", "masked", "saved"} =>
        /\ \A i, j \in 1 .. Len(interp) :
              SameBucket(var_key, interp[i], interp[j])
              => rgba[i][1] = rgba[j][1]
        /\ \A i \in Valid :
              /\ (\A l \in Levels(var_key) : interp[i][2] < l)
                 => rgba[i][1] = 0
              /\ (\A l \in Levels(var_key) : interp[i][2] > l)
                 => rgba[i][1] = Ncmap(var_key) - 1

\* C19 witness: a saved tp tile with two different samples of one bucket in
\* one colour and a sample above the highest level in the last colour.
C19_Witness ==
    /\ var_key = "tp"
    /\ stage = "saved"
    /\ interp = <<Num(10), Num(50), Num(1000000)>>
    /\ png[1][1] = png[2][1]
    /\ png[3][1] = 12

\* C20: when a field is in data_cache, before any crop or regrid, each of
\* its longitudes lies in [-180, 180) and both of its axes are in ascending
\* order.
C20_LongitudeNormalized ==
    stage = "cached" =>
        /\ \A i \in 1 .. Len(longitude) :
              /\ ~Less(longitude[i], <<-180, 0>>)
              /\ Less(longitude[i], <<180, 0>>)
        /\ \A i, j \in 1 .. Len(longitude) :
              i < j => ~Less(longitude[j], longitude[i])
        /\ \A i, j \in 1 .. Len(latitude) :
              i < j => ~Less(latitude[j], latitude[i])

----------------------------------------------------------------------------
(* Source files, dispatch, ordering, the pre-check, the sweep, the         *)
(* downloader, termination and the retry wrapper.                          *)

\* The names of the final .grib2 paths that hold an incomplete file.
PartialSources == {f \in Files : SourceName(f) \in partial}

\* C21: no step of the processor deletes, renames or modifies a source
\* .grib2 file: every step that changes the set of source files, or the
\* content of one, is a step of the downloader.
C21_ProcessorLeavesSources ==
    [][dl' = dl => (sources' = sources /\ PartialSources' = PartialSources)]_vars

\* C21, its case: the processor has rendered tiles from both source files
\* and swept the directory, and both files are still there.
C21_Witness ==
    /\ phase = "sleep"
    /\ sources = Files
    /\ \A f \in Files : result[f] = "done" /\ \E k \in KeysOf(f) : tile[k] = "full"

\* How often file f stands in the queue, is held by a worker, has returned.
Queued(f) == Cardinality({i \in DOMAIN queue : queue[i] = f})
Held(f) == Cardinality({w \in Workers : wk[w].file = f})
Finished(f) == IF result[f] \notin {"none", "pending"} THEN 1 ELSE 0

\* C22: at most MAX_WORKERS files are being processed at any moment, no file
\* is held by two workers, and a file the scan discovered is, through the
\* cycle, exactly one of: waiting in the queue once, held by one worker, or
\* returned; so it is dispatched exactly once.
C22_DispatchedOnceBoundedWorkers ==
    /\ Cardinality({w \in Workers : wk[w].pc # "idle"}) <= MAX_WORKERS
    /\ \A v, w \in Workers :
          (v # w /\ wk[v].pc # "idle" /\ wk[w].pc # "idle")
             => wk[v].file # wk[w].file
    /\ \A w \in Workers : (wk[w].pc = "idle") <=> (wk[w].file = "none")
    /\ \A f \in Files :
          IF result[f] = "none" THEN Queued(f) + Held(f) = 0
          ELSE Queued(f) + Held(f) + Finished(f) = 1

\* C22, its case: MAX_WORKERS workers are busy at once, each on another file.
C22_Witness ==
    /\ Cardinality({wk[w].file : w \in Workers} \ {"none"}) = MAX_WORKERS
    /\ \A w \in Workers : wk[w].pc \in {"decoding", "render"}

\* The states of a worker in which it renders a tile.
Rendering == {"render", "saving", "stats"}

\* C23: the composite is derived only when the last primitive decode of the
\* task has finished; the render loop is entered only from the composite
\* step; while a task renders, its decoded fields do not change; and a tile
\* is rendered only from a field that is in data_cache.
C23_DecodeThenDeriveThenRender ==
    /\ [][\A w \in Workers :
             (wk'[w].pc = "derive" /\ wk[w].pc # "derive")
                => (wk[w].pc = "decoding" /\ wk[w].li = Len(LoadOrder))]_vars
    /\ [][\A w \in Workers :
             (wk'[w].pc \in Rendering /\ wk[w].pc \notin Rendering)
                => (wk[w].pc = "derive" /\ wk'[w].pc = "render")]_vars
    /\ [][\A w \in Workers :
             wk[w].pc \in Rendering
                => data_cache'[wk[w].file] = data_cache[wk[w].file]]_vars
    /\ [](\A w \in Workers :
             wk[w].pc \in {"saving", "stats"}
                => ConfigKey(KeyAt(wk[w].file, wk[w].pos)[3])
                      \in data_cache[wk[w].file])

\* C23, its case: a wind-speed tile is being written, from a composite
\* derived after both constituents were decoded.
C23_Witness ==
    \E w \in Workers :
       /\ wk[w].pc = "saving"
       /\ KeyAt(wk[w].file, wk[w].pos)[3] = "wind_speed"
       /\ {"u10", "v10", "wind_speed"} \subseteq data_cache[wk[w].file]

\* Every (region, variable) key of file f inside the region's horizon has a
\* tile.
AllTilesExist(f) ==
    \A k \in KeysOf(f) : InHorizon(f, k[2]) => tile[k] # "absent"

\* C24: a task that passed the memory gate is skipped (a successful return,
\* no decode, no index file, no "Processing" line, no worker kept) exactly
\* when REPROCESS is false and every in-horizon key has a tile; otherwise it
\* goes on to decoding.
C24_SkippedIffAllTilesExist ==
    [][\A f \in Files :
          (mem[f] = -1 /\ mem'[f] >= MIN_FREE_RAM_GB) =>
             IF ~REPROCESS /\ AllTilesExist(f)
             THEN /\ result'[f] = "cached"
                  /\ ReturnValue(result'[f])
                  /\ \A w \in Workers : wk'[w].file # f
                  /\ idx' = idx
                  /\ data_cache' = data_cache
                  /\ log' = log
             ELSE /\ result'[f] = "pending"
                  /\ \E w \in Workers :
                        wk'[w].file = f /\ wk'[w].pc = "load"
                  /\ <<"Processing", f>> \in log']_vars

\* C24, its case: one file of the cycle was skipped whole while the other,
\* with a tile missing, is being decoded.
C24_Witness ==
    \E f, g \in Files :
       /\ result[f] = "cached"
       /\ AllTilesExist(f)
       /\ ~AllTilesExist(g)
       /\ \E w \in Workers : wk[w].file = g /\ wk[w].pc = "decoding"

\* C25: at the boundary of a cycle in which no task failed, every tile PNG
\* has its sidecar JSON: a tile left without one by a failure of an earlier
\* cycle has been repaired.
C25_EveryTileHasSidecar ==
    (/\ phase = "sleep"
     /\ \E f \in Files : result[f] # "none"
     /\ \A f \in Files : result[f] # "none" => ReturnValue(result[f]))
       => \A k \in Keys : tile[k] # "absent" => sidecar[k] # "absent"

\* C26: after a cycle in which every task returned True, no task decodes a
\* variable again.
C26_DoneFileNeverDecodedAgain ==
    prev => \A w \in Workers : wk[w].pc \notin {"load", "decoding"}

\* C27: the sweep starts only when every task of the batch has returned, and
\* it removes no index file a decode is still using.
C27_SweepAfterBatch ==
    /\ [](phase \in {"sweep", "sleep"} =>
             /\ queue = <<>>
             /\ \A w \in Workers : wk[w].pc = "idle"
             /\ \A f \in Files : result[f] # "pending")
    /\ [][\A n \in idx \ idx' :
             \A w \in Workers :
                ~(wk[w].pc = "decoding" /\ CurIndex(w) = n /\ wk'[w] = wk[w])]_vars
    /\ [](\A w \in Workers : wk[w].pc = "decoding" => CurIndex(w) \in idx)

\* C27, its case: a decode failed and left its index file, and the sweep
\* that followed the batch removed it.
C27_Witness ==
    /\ phase = "sleep"
    /\ failed # {}
    /\ idx = {}

\* C28: a .grib2 path never holds an incomplete download: incomplete files
\* exist only under .tmp names, no file the scan queued or a worker holds is
\* incomplete, and a download that fails leaves the final paths as they were.
C28_FinalPathIsComplete ==
    /\ [](/\ PartialSources = {}
          /\ partial \subseteq temps
          /\ \A n \in partial : ~EndsWithGrib2(n)
          /\ \A f \in files_to_process : SourceName(f) \notin partial)
    /\ [][(dl.pc \in {"get", "write"} /\ dl'.pc \in {"check", "sleep"})
             => (sources' = sources /\ PartialSources' = PartialSources)]_vars

\* C28, its case: a download is half written under its .tmp name while the
\* processor works on a file that was downloaded before.
C28_Witness ==
    /\ dl.pc = "write"
    /\ temp_path(DlFile) \in partial
    /\ phase = "map"
    /\ \E w \in Workers : wk[w].pc = "decoding" /\ wk[w].file \in sources

\* The results of a task that ended in the except clause.
Errors == {"err_render", "err_write"}

\* C29: no exception leaves process_file: a task that raised has returned a
\* result that is not True, with its error line, and its worker is free; and
\* every cycle that starts reaches the sweep and then the sleep.
C29_CycleReachesSleep ==
    /\ [](\A f \in Files :
             result[f] \in Errors
                => /\ ~ReturnValue(result[f])
                   /\ <<"Error processing", f>> \in log
                   /\ \A w \in Workers : wk[w].file # f)
    /\ (phase = "map") ~> (phase = "sweep")
    /\ (phase = "sweep") ~> (phase = "sleep")

\* C29, its case: a task raised, and its cycle has reached the sleep.
C29_Witness ==
    /\ phase = "sleep"
    /\ \E f \in Files : result[f] \in Errors

\* The invocations of the wrapped function that raised.
Raised == {j \in DOMAIN rt_calls : rt_calls[j] = "raise"}

\* C30: the wrapper invokes the function at most max_retries times, never
\* again after an invocation that did not raise, returns what that
\* invocation returned, and returns None, raising nothing, after
\* max_retries invocations that raised.
C30_RetryBounded ==
    /\ Len(rt_calls) <= max_retries
    /\ \A j \in DOMAIN rt_calls : j < Len(rt_calls) => j \in Raised
    /\ rt_pc \in {"loop", "try", "except", "returned"}
    /\ rt_pc = "returned" =>
          IF Raised = DOMAIN rt_calls
          THEN Len(rt_calls) = max_retries /\ rt_ret = "None"
          ELSE rt_ret = rt_calls[Len(rt_calls)]
    /\ rt_pc # "returned" => (Raised = DOMAIN rt_calls /\ rt_ret = "none")

\* C30, its case: max_retries = 3, two invocations raised and the third
\* returned an observation, which the wrapper returned.
C30_Witness ==
    /\ max_retries = 3
    /\ rt_calls = <<"raise", "raise", "observation">>
    /\ rt_pc = "returned"
    /\ rt_ret = "observation"

====
